---------------------------- MODULE Spec2Model ----------------------------
(***************************************************************************)
(* The PiggerTimeline page (src/pages/index.tsx, the Home component of     *)
(* lines 236-483): a React component that is rendered from the rows of a   *)
(* CSV feed, three filter controls, and a 60 s polling interval whose      *)
(* callback fetches the feed again.  The component of lines 1-234 has the  *)
(* same state, effects and handlers; it differs in the colour, the dates   *)
(* and the date window it renders.                                         *)
(*                                                                         *)
(* Strings are TLA+ strings; the empty string "" is the only falsy one.    *)
(* A Date is the number of its day in DateTable (dates are handled at day  *)
(* granularity, in UTC, which is what toISOString().slice(0, 10) keeps).   *)
(***************************************************************************)
EXTENDS Integers, Sequences, FiniteSets, Bags, TLC

VARIABLES
    events,         \* the events prop (getServerSideProps' rows)
    filtered,       \* useState(events)
    showMilestone,  \* useState(true)
    person,         \* useState("")
    status,         \* useState("")
    today,          \* new Date(), as a day of DateTable
    mounted,        \* the component is mounted
    timers,         \* the armed intervals, each with the values its callback closed over
    timerId,        \* the id the refresh effect's cleanup closed over
    inflight,       \* the bag of interval callbacks awaiting fetch()/text(), each the closure it runs in
    sinceRefresh,   \* ms of mounted time since the last fetch was started (or since mount)
    op,             \* the handler that ran last
    latest,         \* the row set delivered last (initial load or a successful refresh)
    source,         \* the row set `filtered` was computed from last
    arg,            \* getColor's argument (specification SpecColor)
    ret             \* getColor's result   (specification SpecColor)

vars == <<events, filtered, showMilestone, person, status, today, mounted, timers,
          timerId, inflight, sinceRefresh, op, latest, source, arg, ret>>

viewVars == <<events, filtered, showMilestone, person, status, today, mounted, timers,
              timerId, inflight, sinceRefresh, op, latest, source>>

-----------------------------------------------------------------------------
(* Bounds of the model *)

MaxInFlight == 1

TimeStep == 30000

MaxIdle == 90000

(* setInterval(..., 60000) *)
IntervalMs == 60000

(* minDate.setDate(minDate.getDate() - 7); maxDate.setDate(maxDate.getDate() + 7) *)
PadDays == 7

-----------------------------------------------------------------------------
(* Dates *)

(* The calendar the model's dates live in: DateTable[d] is the text
   toISOString().slice(0, 10) gives for day d, and Date.parse of that text is d. *)
DateTable ==
    << "2023-12-25", "2023-12-26", "2023-12-27", "2023-12-28", "2023-12-29", "2023-12-30",
       "2023-12-31", "2024-01-01", "2024-01-02", "2024-01-03", "2024-01-04", "2024-01-05",
       "2024-01-06", "2024-01-07", "2024-01-08", "2024-01-09", "2024-01-10", "2024-01-11",
       "2024-01-12", "2024-01-13", "2024-01-14", "2024-01-15", "2024-01-16", "2024-01-17",
       "2024-01-18", "2024-01-19", "2024-01-20", "2024-01-21", "2024-01-22", "2024-01-23",
       "2024-01-24", "2024-01-25", "2024-01-26", "2024-01-27", "2024-01-28", "2024-01-29",
       "2024-01-30", "2024-01-31", "2024-02-01", "2024-02-02", "2024-02-03", "2024-02-04",
       "2024-02-05", "2024-02-06", "2024-02-07", "2024-02-08", "2024-02-09", "2024-02-10",
       "2024-02-11", "2024-02-12", "2024-02-13", "2024-02-14", "2024-02-15" >>

(* the texts Date.parse accepts *)
IsoDates == {DateTable[d] : d \in DOMAIN DateTable}

(* the day of each of them *)
DayOf == [v \in IsoDates |-> CHOOSE d \in DOMAIN DateTable : DateTable[d] = v]

(* !isNaN(Date.parse(v)) *)
isDate(v) == v \in IsoDates

(* new Date(v).getTime(), for a v with isDate(v) *)
DateParse(v) == DayOf[v]

(* d.toISOString().slice(0, 10) *)
toISODate(d) == DateTable[d]

(* getDefaultDate as it would be with the plusDays step left out *)
getDefaultDateNoPlus(v, plusDays, now) ==
    IF v # "" /\ isDate(v) THEN v ELSE toISODate(now)

(* getDefaultDate(v, plusDays), with new Date() = now *)
getDefaultDate(v, plusDays, now) ==
    IF v # "" /\ isDate(v)
    THEN v
    ELSE toISODate(IF plusDays # 0 THEN now + plusDays ELSE now)

-----------------------------------------------------------------------------
(* Array helpers *)

includes(s, x) == \E i \in DOMAIN s : s[i] = x

RECURSIVE Dedupe(_)
(* Array.from(new Set(s)): the distinct elements in first-seen order *)
Dedupe(s) ==
    IF s = <<>> THEN <<>>
    ELSE LET init == Dedupe(SubSeq(s, 1, Len(s) - 1))
             x == s[Len(s)]
         IN  IF includes(init, x) THEN init ELSE Append(init, x)

Min(S) == CHOOSE x \in S : \A y \in S : x <= y

Max(S) == CHOOSE x \in S : \A y \in S : x >= y

-----------------------------------------------------------------------------
(* The filter and the derived lists of a render *)

(* the predicate of both events.filter(...) and records.filter(...) *)
passes(e, sm, p, s) ==
    /\ (sm \/ e.Type # "Milestone")
    /\ (p = "" \/ e.Person = p)
    /\ (s = "" \/ e.Status = s)

applyFilter(rows, sm, p, s) ==
    LET keep(e) == passes(e, sm, p, s) IN SelectSeq(rows, keep)

Boolean(x) == x # ""

PersonOf(e) == e.Person

StatusOf(e) == e.Status

isMilestone(e) == e.Type = "Milestone"

personList == SelectSeq(Dedupe([i \in DOMAIN events |-> PersonOf(events[i])]), Boolean)

statusList == SelectSeq(Dedupe([i \in DOMAIN events |-> StatusOf(events[i])]), Boolean)

milestonePeople ==
    LET milestones == SelectSeq(filtered, isMilestone)
    IN  Dedupe([i \in DOMAIN milestones |-> PersonOf(milestones[i])])

normalPeople ==
    LET other(p) == ~includes(milestonePeople, p) IN SelectSeq(personList, other)

sortedPeople == milestonePeople \o normalPeople

resources ==
    [i \in DOMAIN sortedPeople |-> [id |-> sortedPeople[i], title |-> sortedPeople[i]]]

-----------------------------------------------------------------------------
(* Colours *)

(* the characters of the colour texts the model uses *)
Chars(s) ==
    CASE s = ""            -> <<>>
      [] s = "#ABC"        -> <<"#", "A", "B", "C">>
      [] s = "#2196f3"     -> <<"#", "2", "1", "9", "6", "f", "3">>
      [] s = "#aBcDeF"     -> <<"#", "a", "B", "c", "D", "e", "F">>
      [] s = "#12"         -> <<"#", "1", "2">>
      [] s = "#ABCD"       -> <<"#", "A", "B", "C", "D">>
      [] s = "#ABCDEFG"    -> <<"#", "A", "B", "C", "D", "E", "F", "G">>
      [] s = "#GGG"        -> <<"#", "G", "G", "G">>
      [] s = "ABC"         -> <<"A", "B", "C">>
      [] s = "#ABC#ABC"    -> <<"#", "A", "B", "C", "#", "A", "B", "C">>
      [] s = "RD"          -> <<"R", "D">>
      [] s = "UI"          -> <<"U", "I">>
      [] s = "PM"          -> <<"P", "M">>
      [] s = "red"         -> <<"r", "e", "d">>
      [] s = "constructor" -> <<"c", "o", "n", "s", "t", "r", "u", "c", "t", "o", "r">>

HexDigits ==
    {"0", "1", "2", "3", "4", "5", "6", "7", "8", "9",
     "A", "B", "C", "D", "E", "F", "a", "b", "c", "d", "e", "f"}

isHexTriple(c, from) ==
    /\ from + 2 <= Len(c)
    /\ \A i \in from .. from + 2 : c[i] \in HexDigits

(* /^#([0-9A-Fa-f]{3}){1,2}$/.test(s) *)
testHex(s) ==
    LET c == Chars(s) IN
    /\ Len(c) >= 1
    /\ c[1] = "#"
    /\ \/ Len(c) = 4 /\ isHexTriple(c, 2)
       \/ Len(c) = 7 /\ isHexTriple(c, 2) /\ isHexTriple(c, 5)

(* the own properties of the personColors object literal *)
personColors ==
    [k \in {"RD", "UI", "PM", ""} |->
        CASE k = "RD" -> "#4caf50"
          [] k = "UI" -> "#2196f3"
          [] k = "PM" -> "#ff9800"
          [] k = ""   -> "#607d8b"]

(* personColors is an object literal, so a key it does not own is looked up in
   Object.prototype *)
ObjectPrototypeKeys ==
    {"constructor", "toString", "toLocaleString", "valueOf", "hasOwnProperty",
     "isPrototypeOf", "propertyIsEnumerable", "__proto__"}

(* what personColors[k] is for an inherited k: a truthy value that is no colour text *)
InheritedMember == "[Object.prototype member]"

(* undefined, which is falsy as "" is *)
Undefined == ""

(* personColors[k] *)
personColorsAt(k) ==
    IF k \in DOMAIN personColors THEN personColors[k]
    ELSE IF k \in ObjectPrototypeKeys THEN InheritedMember
    ELSE Undefined

getColor(e) ==
    IF e.Color # "" /\ testHex(e.Color) THEN e.Color
    ELSE IF e.Color # "" /\ personColorsAt(e.Color) # "" THEN personColorsAt(e.Color)
    ELSE IF personColorsAt(e.Person) # "" THEN personColorsAt(e.Person)
    ELSE "#607d8b"

-----------------------------------------------------------------------------
(* What a render hands to FullCalendar *)

(* calendarEvents; entry i has the id `${i - 1}` *)
calendarEvents ==
    LET ev(e) == [resourceId |-> e.Person,
                  title |-> e.Task,
                  start |-> getDefaultDate(e.Start, 0, today),
                  end |-> getDefaultDate(e.End, 1, today),
                  backgroundColor |-> getColor(e),
                  extendedProps |-> e]
    IN  [i \in DOMAIN filtered |-> ev(filtered[i])]

(* milestoneEvents; entry i has the id `m-${i - 1}` *)
milestoneEvents ==
    LET ev(e) == [start |-> getDefaultDate(e.Start, 0, today),
                  resourceId |-> e.Person,
                  display |-> "background",
                  backgroundColor |-> "#d32f2f",
                  borderColor |-> "#d32f2f"]
        milestones == SelectSeq(filtered, isMilestone)
    IN  [i \in DOMAIN milestones |-> ev(milestones[i])]

(* allDates as it would be without `today` (as lines 115-118 have it) *)
allDatesRowsOnly ==
    LET start(e) == DateParse(getDefaultDate(e.Start, 0, today))
        end(e) == DateParse(getDefaultDate(e.End, 1, today))
    IN  IF filtered = <<>> THEN <<today>>
        ELSE [i \in DOMAIN filtered |-> start(filtered[i])]
             \o [i \in DOMAIN filtered |-> end(filtered[i])]

(* allDates: every element is a valid Date, so the isNaN filter keeps them all *)
allDates ==
    LET start(e) == DateParse(getDefaultDate(e.Start, 0, today))
        end(e) == DateParse(getDefaultDate(e.End, 1, today))
    IN  [i \in DOMAIN filtered |-> start(filtered[i])]
        \o [i \in DOMAIN filtered |-> end(filtered[i])]
        \o <<today>>

Range(s) == {s[i] : i \in DOMAIN s}

(* minDate, after minDate.setDate(minDate.getDate() - 7) *)
minDate == Min(Range(allDates)) - PadDays

(* maxDate, after maxDate.setDate(maxDate.getDate() + 7) *)
maxDate == Max(Range(allDates)) + PadDays

visibleRange == [start |-> toISODate(minDate), end |-> toISODate(maxDate)]

-----------------------------------------------------------------------------
(* The feed *)

Row(p, t, s, e, ty, st, c) ==
    [Person |-> p, Task |-> t, Start |-> s, End |-> e, Type |-> ty, Status |-> st,
     Color |-> c]

rowRD == Row("RD", "API", "2024-01-10", "2024-01-20", "Task", "Doing", "")

rowUI == Row("UI", "Launch", "2024-01-15", "2024-01-15", "Milestone", "Meeting", "#ABC")

rowBlank == Row("", "Backlog", "", "not-a-date", "Task", "", "PM")

rowPM == Row("PM", "Plan", "2024-01-12", "2024-01-18", "Task", "Doing", "red")

rowRD2 == Row("RD", "Review", "2024-01-20", "", "Milestone", "Todo", "#2196f3")

(* what fetchCSVData / parse(text, {columns: true}) can deliver *)
Feeds ==
    { <<rowRD, rowUI, rowBlank>>,
      <<rowPM, rowRD, rowRD2>> }

(* the days new Date() can be *)
Todays == {DateParse("2024-01-15"), DateParse("2024-02-01")}

-----------------------------------------------------------------------------
(* Timers *)

(* the id setInterval returns: one no armed timer has *)
newTimerId(ts) ==
    Min({i \in 1 .. Cardinality(ts) + 1 : \A t \in ts : t.id # i})

(* setInterval(async () => {...}, 60000) in a render with the state sm, p, s *)
setInterval(ts, id, sm, p, s) ==
    ts \cup {[id |-> id, showMilestone |-> sm, person |-> p, status |-> s, elapsed |-> 0]}

(* clearInterval as it would be if the cleanup cleared nothing *)
clearIntervalLeak(ts, id) == ts

clearInterval(ts, id) == {t \in ts : t.id # id}

-----------------------------------------------------------------------------
(* The state after the first render and its effects *)

Init ==
    /\ events \in Feeds
    /\ today \in Todays
    /\ showMilestone = TRUE
    /\ person = ""
    /\ status = ""
    /\ filtered = applyFilter(events, TRUE, "", "")
    /\ mounted = TRUE
    /\ timers = setInterval({}, 1, TRUE, "", "")
    /\ timerId = 1
    /\ inflight = EmptyBag
    /\ sinceRefresh = 0
    /\ op = "mount"
    /\ latest = events
    /\ source = events
    /\ arg = [Color |-> "", Person |-> ""]
    /\ ret = [done |-> FALSE, value |-> ""]

(* The effects of a render whose showMilestone, person, status are sm, p, s and differ
   from the previous render's: the refresh effect's cleanup, then the filter effect,
   then the refresh effect. *)
RunEffects(sm, p, s) ==
    LET cleared == clearInterval(timers, timerId)
        id == newTimerId(cleared)
    IN  /\ filtered' = applyFilter(events, sm, p, s)
        /\ source' = events
        /\ timers' = setInterval(cleared, id, sm, p, s)
        /\ timerId' = id

(* onChange of the person select: setPerson(e.target.value) *)
SetPerson(p) ==
    /\ mounted
    /\ p # person
    /\ p = "" \/ includes(personList, p)
    /\ person' = p
    /\ RunEffects(showMilestone, p, status)
    /\ op' = "filterChange"
    /\ UNCHANGED <<events, showMilestone, status, today, mounted, inflight,
                   sinceRefresh, latest, arg, ret>>

(* onChange of the status select: setStatus(e.target.value) *)
SetStatus(s) ==
    /\ mounted
    /\ s # status
    /\ s = "" \/ includes(statusList, s)
    /\ status' = s
    /\ RunEffects(showMilestone, person, s)
    /\ op' = "filterChange"
    /\ UNCHANGED <<events, showMilestone, person, today, mounted, inflight,
                   sinceRefresh, latest, arg, ret>>

(* onChange of the milestone checkbox: setShowMilestone(v => !v) *)
ToggleMilestone ==
    /\ mounted
    /\ showMilestone' = ~showMilestone
    /\ RunEffects(~showMilestone, person, status)
    /\ op' = "filterChange"
    /\ UNCHANGED <<events, person, status, today, mounted, inflight,
                   sinceRefresh, latest, arg, ret>>

(* TimeStep ms pass with no interval due *)
AdvanceTime ==
    /\ mounted \/ timers # {}
    /\ \A t \in timers : t.elapsed < IntervalMs
    /\ sinceRefresh + TimeStep <= MaxIdle
    /\ timers' = {[t EXCEPT !.elapsed = @ + TimeStep] : t \in timers}
    /\ sinceRefresh' = IF mounted THEN sinceRefresh + TimeStep ELSE sinceRefresh
    /\ op' = "advanceTime"
    /\ UNCHANGED <<events, filtered, showMilestone, person, status, today, mounted,
                   timerId, inflight, latest, source, arg, ret>>

(* an armed interval fires: its callback runs up to `await fetch(...)` *)
Tick(t) ==
    /\ t \in timers
    /\ t.elapsed >= IntervalMs
    /\ BagCardinality(inflight) < MaxInFlight
    /\ inflight' = inflight (+) SetToBag({[showMilestone |-> t.showMilestone,
                                           person |-> t.person, status |-> t.status]})
    /\ timers' = (timers \ {t}) \cup {[t EXCEPT !.elapsed = 0]}
    /\ sinceRefresh' = 0
    /\ op' = "tick"
    /\ UNCHANGED <<events, filtered, showMilestone, person, status, today, mounted,
                   timerId, latest, source, arg, ret>>

(* the callback c resumes with the parsed records and calls
   setFiltered(records.filter(...)) with the showMilestone, person, status it closed
   over; React drops the update of an unmounted component *)
FetchOk(c, records) ==
    /\ BagIn(c, inflight)
    /\ inflight' = inflight (-) SetToBag({c})
    /\ IF mounted
       THEN /\ filtered' = applyFilter(records, c.showMilestone,
                                       c.person, c.status)
            /\ latest' = records
            /\ source' = records
       ELSE UNCHANGED <<filtered, latest, source>>
    /\ op' = "fetchOk"
    /\ UNCHANGED <<events, showMilestone, person, status, today, mounted, timers,
                   timerId, sinceRefresh, arg, ret>>

(* FetchError as it would be if a failure were rendered as an empty feed *)
FetchErrorClears(c) ==
    /\ BagIn(c, inflight)
    /\ inflight' = inflight (-) SetToBag({c})
    /\ filtered' = <<>>
    /\ op' = "fetchError"
    /\ UNCHANGED <<events, showMilestone, person, status, today, mounted,
                   timers, timerId, sinceRefresh, latest, source, arg, ret>>

(* fetch(), res.text() or parse() throws in the callback c: the async
   callback's promise rejects before setFiltered is reached *)
FetchError(c) ==
    /\ BagIn(c, inflight)
    /\ inflight' = inflight (-) SetToBag({c})
    /\ op' = "fetchError"
    /\ UNCHANGED <<events, filtered, showMilestone, person, status, today, mounted,
                   timers, timerId, sinceRefresh, latest, source, arg, ret>>

(* the component unmounts: the refresh effect's cleanup runs *)
Unmount ==
    /\ mounted
    /\ mounted' = FALSE
    /\ timers' = clearInterval(timers, timerId)
    /\ op' = "unmount"
    /\ UNCHANGED <<events, filtered, showMilestone, person, status, today, timerId,
                   inflight, sinceRefresh, latest, source, arg, ret>>

Persons == {"", "RD", "UI", "PM"}

Statuses == {"", "Doing", "Meeting", "Todo"}

Next ==
    \/ \E p \in Persons : SetPerson(p)
    \/ \E s \in Statuses : SetStatus(s)
    \/ ToggleMilestone
    \/ AdvanceTime
    \/ \E t \in timers : Tick(t)
    \/ \E c \in BagToSet(inflight), records \in Feeds : FetchOk(c, records)
    \/ \E c \in BagToSet(inflight) : FetchError(c)
    \/ Unmount

Spec == Init /\ [][Next]_vars

-----------------------------------------------------------------------------
(* getColor as a function of a row's Color and Person *)

ColorTexts ==
    {"", "#ABC", "#2196f3", "#aBcDeF", "#12", "#ABCD", "#ABCDEFG", "#GGG", "ABC",
     "#ABC#ABC", "RD", "UI", "PM", "red", "constructor"}

PersonTexts == {"", "RD", "UI", "PM", "QA", "constructor", "toString"}

InitColor ==
    /\ events = <<>>
    /\ today = DateParse("2024-01-15")
    /\ showMilestone = TRUE
    /\ person = ""
    /\ status = ""
    /\ filtered = <<>>
    /\ mounted = TRUE
    /\ timers = {}
    /\ timerId = 1
    /\ inflight = EmptyBag
    /\ sinceRefresh = 0
    /\ op = "mount"
    /\ latest = <<>>
    /\ source = <<>>
    /\ arg \in [Color : ColorTexts, Person : PersonTexts]
    /\ ret = [done |-> FALSE, value |-> ""]

CallGetColor ==
    /\ ~ret.done
    /\ ret' = [done |-> TRUE, value |-> getColor(arg)]
    /\ UNCHANGED <<viewVars, arg>>

NextColor == CallGetColor

SpecColor == InitColor /\ [][NextColor]_vars

-----------------------------------------------------------------------------
(* Properties *)

FilterChanged == op = "filterChange"

(* C1: while the view is mounted, every visible row satisfies the three filter
   predicates against the current showMilestone, person and status, also when a
   fetch that was started under other filter values has completed. *)
VisibleRowsMatchCurrentFilter ==
    mounted =>
        \A i \in DOMAIN filtered :
            /\ showMilestone \/ filtered[i].Type # "Milestone"
            /\ person = "" \/ filtered[i].Person = person
            /\ status = "" \/ filtered[i].Status = status

(* C2: after a filter-control change, the visible rows are the filter of the row
   set delivered last (the initial load, or the latest successful refresh) under
   the new filter values. *)
ViewBuiltFromLatestRows ==
    (mounted /\ FilterChanged) =>
        filtered = applyFilter(latest, showMilestone, person, status)

(* C3: while the view is mounted, no more than 60 seconds of mounted time pass
   without a refresh fetch being started. *)
RefreshEveryInterval ==
    mounted => sinceRefresh <= 60000

(* the parseable Start and End dates of the visible rows *)
VisibleDays ==
    {DateParse(filtered[i].Start) : i \in {j \in DOMAIN filtered : isDate(filtered[j].Start)}}
    \cup
    {DateParse(filtered[i].End) : i \in {j \in DOMAIN filtered : isDate(filtered[j].End)}}

(* the days the code substitutes for the missing or unparseable dates of visible rows *)
SubstitutedDays ==
    {today : i \in {j \in DOMAIN filtered : ~isDate(filtered[j].Start)}}
    \cup
    {today + 1 : i \in {j \in DOMAIN filtered : ~isDate(filtered[j].End)}}

FacetsOfCurrentRows ==
    mounted =>
        /\ personList = SelectSeq(Dedupe([i \in DOMAIN source |-> PersonOf(source[i])]), Boolean)
        /\ statusList = SelectSeq(Dedupe([i \in DOMAIN source |-> StatusOf(source[i])]), Boolean)
        /\ \A i \in DOMAIN personList : personList[i] # ""
        /\ \A i \in DOMAIN statusList : statusList[i] # ""
        /\ \A i, j \in DOMAIN personList : i # j => personList[i] # personList[j]
        /\ \A i, j \in DOMAIN statusList : i # j => statusList[i] # statusList[j]

(* C7: a step in which the fetch or the parse of an interval tick fails leaves the
   visible rows, the filter values and the armed polling timer as they were. *)
FailedTickLeavesViewUnchanged ==
    [][op' = "fetchError" =>
          /\ filtered' = filtered
          /\ <<showMilestone, person, status>>' = <<showMilestone, person, status>>
          /\ <<timers, timerId>>' = <<timers, timerId>>]_vars

FailedTickWitness ==
    /\ op = "fetchError"
    /\ mounted
    /\ filtered # <<>>
    /\ person # ""
    /\ \E t \in timers : t.id = timerId /\ t.person = person

(* the value the priority order of C8 gives *)
HexColorTexts == {"#ABC", "#2196f3", "#aBcDeF"}

AliasKeys == {"RD", "UI", "PM"}

ColorByPriority(e) ==
    IF e.Color \in HexColorTexts THEN e.Color
    ELSE IF e.Color \in AliasKeys THEN personColors[e.Color]
    ELSE IF e.Person \in AliasKeys THEN personColors[e.Person]
    ELSE "#607d8b"

(* C8: for every Color and Person, getColor is the Color itself when it is '#' and
   3 or 6 hex digits, else the mapped value of the alias key Color, else the
   person's default colour, else the gray #607d8b. *)
GetColorPriority ==
    ret.done => ret.value = ColorByPriority(arg)

(* the priority order of C8 for the rows whose Color and Person name no member of
   Object.prototype *)
GetColorPriorityOwnKeys ==
    (ret.done /\ arg.Color \notin ObjectPrototypeKeys /\ arg.Person \notin ObjectPrototypeKeys)
        => ret.value = ColorByPriority(arg)

(* C9: at most one polling timer is armed while the view is mounted, none after
   teardown, and no refresh fetch is started after teardown. *)
PollingTimerScoped ==
    /\ mounted => Cardinality(timers) <= 1
    /\ ~mounted => timers = {}
    /\ op = "tick" => mounted

PollingTimerWitness ==
    /\ ~mounted
    /\ person # ""
    /\ ~showMilestone
    /\ inflight # EmptyBag

(* C10: the resourceId of every timeline entry and of every milestone background
   marker is the id of some resource of the resources list. *)
EveryResourceIdHasResource ==
    mounted =>
        /\ \A i \in DOMAIN calendarEvents :
              \E r \in DOMAIN resources : resources[r].id = calendarEvents[i].resourceId
        /\ \A i \in DOMAIN milestoneEvents :
              \E r \in DOMAIN resources : resources[r].id = milestoneEvents[i].resourceId

=============================================================================
